---- MODULE Spec2Model ----
(***************************************************************************)
(* Model of src/app.py: a Streamlit script that is re-executed from the    *)
(* top on every interaction.  st.session_state survives between script     *)
(* runs; everything else is local to one run.  Script runs at step 0, 1, 2 *)
(* and 4 make at most one gateway call and are one action each.  The run   *)
(* at step 3 is the research loop; it makes one gateway call per action    *)
(* and its position is kept in pc, because an exception or st.stop() ends  *)
(* the run between two calls and leaves the session where it was.          *)
(***************************************************************************)
EXTENDS Integers, Sequences, FiniteSets, TLC

VARIABLES
    secret,     \* st.secrets["openai"]["api_key"] is present
    inited,     \* the session-state keys of lines 22-37 exist
    kinds,      \* the Python type of the value each session-state key holds
    step, topic, questions, answers, goal, queries, collected, report,
                \* st.session_state.*
    shown,      \* the widget the last finished script run rendered
    pc,         \* position of the running step-3 script: idle/search/expand
    lqueries,   \* step 3's local `queries` (a parsed JSON value)
    lgoal,      \* step 3's local `goal`
    idx,        \* position of `for q in queries` (1-based, next to search)
    last,       \* history: the gateway call made by the latest action
    firstGoal,  \* history: first goal the planner stored this session
    replanned,  \* history: the planner stored a plan over an earlier one
    answersRecorded, \* history: line 154 ran this session
    approved,   \* history: an evaluate call of this session returned true
    activeSet,  \* history: query set most recently produced (plan/expansion)
    passStart,  \* history: len(collected) when the current pass began
    nPass, nEval, nExpand, \* history: calls made by the current step-3 run
    reportAssigned, \* history: line 197 assigned the report this session
    approvedEv,     \* history: the evidence the evaluate call that returned
                    \* true was given
    answeredFor     \* history: the questions of the form the stored answers
                    \* were typed into

session == <<step, topic, questions, answers, goal, queries, collected, report,
             kinds>>
locals  == <<pc, lqueries, lgoal, idx>>
history == <<last, firstGoal, replanned, answersRecorded, approved, activeSet, passStart,
             nPass, nEval, nExpand>>
aux     == <<reportAssigned, approvedEv, answeredFor>>
vars    == <<secret, inited, session, shown, locals, history, aux>>

(* ------------------------------ bounds -------------------------------- *)
MaxBatch    == 2   \* longest query list drawn freely for a plan or expansion
MaxEvidence == 5   \* cap on len(collected)
MaxIter     == 2   \* cap on expansions within one script run

(* ------------------------- gateway vocabulary ------------------------- *)
Topics       == {"", "solar"}
AnswerInputs == {"", " ", "a"}
Goals        == {"", "g1", "g2"}
MoreQueries  == <<"q1", "q2", "q3", "q4">>
RespIds      == {"id1"}
Outputs      == {"out"}
Reports      == {"", "report [1]"}
FiveQueries  == <<"qa", "qb", "qc", "qd", "qe">>
Unset        == "unset"

Min(a, b) == IF a < b THEN a ELSE b
\* the first 0..MaxBatch elements of s
Prefixes(s) == {SubSeq(s, 1, k) : k \in 0..Min(MaxBatch, Len(s))}
\* query lists a plan can hold: short ones and the five the prompt asks for
PlanLists   == Prefixes(FiveQueries) \cup {FiveQueries}
\* query lists an expansion can hold
ExpandLists == Prefixes(MoreQueries)

\* A parsed JSON value, as far as the loop can tell values apart: a list
\* (v = its elements), an object (v = its keys, in order) or a number.
JList(s) == [t |-> "list", v |-> s]
JDict(s) == [t |-> "dict", v |-> s]
JNum     == [t |-> "num",  v |-> <<>>]

NoCall == [fn |-> "none", goal |-> "", info |-> ""]
Call(f, g, i) == [fn |-> f, goal |-> g, info |-> i]
\* evaluate and write_report also get the evidence; of evaluate's call the
\* reply text is kept too
EvalCall(g, i, ev, text) ==
    [fn |-> "evaluate", goal |-> g, info |-> i, ev |-> ev, text |-> text]
ReportCall(g, i, ev) ==
    [fn |-> "write_report", goal |-> g, info |-> i, ev |-> ev]

\* Python's a.strip()
Strip_None(a) == a

Strip(a) == IF a \in {"", " "} THEN "" ELSE a

RECURSIVE Split(_, _)
\* text.split("\n") on a text given as a sequence of one-character-like
\* tokens; `cur` is the line being built.  A line is the sequence of its
\* tokens.
Split(text, cur) ==
    IF text = <<>> THEN <<cur>>
    ELSE IF Head(text) = "\n" THEN <<cur>> \o Split(Tail(text), <<>>)
    ELSE Split(Tail(text), Append(cur, Head(text)))

\* q.strip() is non-empty: the line has a token that is not white space
NonBlankLine(line) == \E k \in 1..Len(line) : Strip(line[k]) # ""

QuestionTexts ==
    { <<>>,
      <<" ", "\n">>,
      <<"Q1?", "\n", " ", "\n", "Q2?">> }

Lower_Identity(c) == c

Lower(c) ==
    CASE c = "Y" -> "y" [] c = "E" -> "e" [] c = "S" -> "s"
      [] c = "N" -> "n" [] c = "O" -> "o" [] OTHER -> c

LowerText(s) == [k \in 1..Len(s) |-> Lower(s[k])]

\* Python's `sub in s`
Contains(sub, s) ==
    \E k \in 0..(Len(s) - Len(sub)) :
        \A j \in 1..Len(sub) : s[k + j] = sub[j]

EvalTexts ==
    { <<"Y", "E", "S", ".">>,
      <<"N", "o">>,
      <<"N", "o", ",", " ", "y", "e", "s", " ", "w", "o", "u", "l", "d">>,
      <<"y", "e">> }

(* ----------------------- the functions of app.py ---------------------- *)
Raise    == [ok |-> FALSE]
Ret(val) == [ok |-> TRUE, val |-> val]

\* A gateway response is [k |-> "fail"] (the call raised) or carries what the
\* function reads from it.

AskResponses == {[k |-> "fail"]} \cup {[k |-> "text", text |-> t] : t \in QuestionTexts}

ask_clarifying_questions(resp) ==
    IF resp.k = "fail" THEN Raise
    ELSE Ret(SelectSeq(Split(resp.text, <<>>), NonBlankLine))

\* The planner's reply text: not JSON, or a JSON object with or without each
\* of the two fields.
\* goalKind and queriesKind are the JSON types of the two values: the format
\* asks for a string and an array, and one reply each carries the goal as a
\* one-element array and the queries as an object (its keys are what a for
\* loop over it yields).
PlanKinds == {<<"str", "list">>, <<"list", "list">>, <<"str", "dict">>}

PlanResponses ==
    {[k |-> "fail"], [k |-> "garbage"]}
    \cup {[k |-> "json", hasGoal |-> hg, hasQueries |-> hq, goal |-> "g1",
           queries |-> <<"qa">>, goalKind |-> ks[1], queriesKind |-> ks[2]] :
            hg \in BOOLEAN, hq \in BOOLEAN, ks \in PlanKinds}
    \cup {[k |-> "json", hasGoal |-> TRUE, hasQueries |-> TRUE, goal |-> g,
           queries |-> qs, goalKind |-> "str", queriesKind |-> "list"] :
            g \in Goals, qs \in PlanLists}

\* what planning does with a reply: "fail" the gateway call raises, "garbage"
\* the text is not JSON, "missing" a field is absent, "ok" both are there
PlanInfo(resp) ==
    IF resp.k \in {"fail", "garbage"} THEN resp.k
    ELSE IF ~resp.hasGoal \/ ~resp.hasQueries THEN "missing"
    ELSE "ok"

get_goal_and_queries_Default(resp) ==
    IF resp.k = "fail" THEN Raise
    ELSE IF resp.k = "garbage" THEN Raise
    ELSE [ok |-> TRUE,
          val |-> [goal |-> IF resp.hasGoal THEN resp.goal ELSE "",
                   queries |-> IF resp.hasQueries THEN resp.queries ELSE <<>>,
                   goalKind |-> IF resp.hasGoal THEN resp.goalKind ELSE "str",
                   queriesKind |-> IF resp.hasQueries THEN resp.queriesKind
                                   ELSE "list"]]

get_goal_and_queries(resp) ==
    IF resp.k = "fail" THEN Raise
    ELSE IF resp.k = "garbage" THEN Raise              \* json.loads raises
    ELSE IF ~resp.hasGoal \/ ~resp.hasQueries THEN Raise \* KeyError
    ELSE Ret([goal |-> resp.goal, queries |-> resp.queries,
              goalKind |-> resp.goalKind, queriesKind |-> resp.queriesKind])

SearchResponses ==
    {[k |-> "fail"], [k |-> "slots", n |-> 1]}
    \cup {[k |-> "slots", n |-> 2, id |-> i, text |-> o] : i \in RespIds, o \in Outputs}

run_search_Partial(q, resp) ==
    IF resp.k = "fail" THEN Raise
    ELSE IF resp.n < 2 THEN Ret([query |-> q, resp_id |-> "", research_output |-> ""])
    ELSE Ret([query |-> q, resp_id |-> resp.id, research_output |-> resp.text])

run_search(q, resp) ==
    IF resp.k = "fail" THEN Raise
    ELSE IF resp.n < 2 THEN Raise                      \* output[1]: IndexError
    ELSE Ret([query |-> q, resp_id |-> resp.id, research_output |-> resp.text])

EvalResponses == {[k |-> "fail"]} \cup {[k |-> "text", text |-> t] : t \in EvalTexts}

evaluate(resp) ==
    IF resp.k = "fail" THEN Raise
    ELSE Ret(Contains(<<"y", "e", "s">>, LowerText(resp.text)))

\* The expander's reply text: empty, not JSON, or JSON of some value.
ExpandValues ==
    {JList(s) : s \in ExpandLists} \cup {JDict(<<"queries">>), JNum}

ExpandResponses ==
    {[k |-> "fail"], [k |-> "empty"], [k |-> "garbage"]}
    \cup {[k |-> "json", val |-> v] : v \in ExpandValues}

\* Raise: the call raised.  Stop: st.stop() ended the script run.
Stop == [ok |-> FALSE, stop |-> TRUE]

get_more_queries_EmptyList(resp) ==
    IF resp.k = "fail" THEN Raise
    ELSE IF resp.k = "empty" THEN Ret(JList(<<>>))
    ELSE IF resp.k = "garbage" THEN Stop
    ELSE Ret(resp.val)

get_more_queries(resp) ==
    IF resp.k = "fail" THEN Raise
    ELSE IF resp.k = "empty" THEN Stop                 \* if not text: st.stop()
    ELSE IF resp.k = "garbage" THEN Stop               \* except: st.stop()
    ELSE Ret(resp.val)

ReportResponses == {[k |-> "fail"]} \cup {[k |-> "text", text |-> t] : t \in Reports}

write_report(resp) ==
    IF resp.k = "fail" THEN Raise ELSE Ret(resp.text)

\* `for q in queries`: what Python iterates over, or a TypeError
Iterable(val)  == val.t \in {"list", "dict"}

RECURSIVE Reverse(_)
Reverse(s) == IF s = <<>> THEN <<>> ELSE Append(Reverse(Tail(s)), Head(s))

IterItems_Reversed(val) == Reverse(val.v)

IterItems(val) == val.v

ListAppend_Replace(list, item) == <<item>>

\* collected.append(item)
ListAppend(list, item) == Append(list, item)

AfterEvaluate_NoBreak(sufficient) == "expand"

AfterEvaluate_AlwaysBreak(sufficient) == "break"

\* lines 185-188: `if evaluate(...): break`, otherwise go on to expand
AfterEvaluate(sufficient) == IF sufficient THEN "break" ELSE "expand"

\* what a response to run_search was: the call raised, or how many output
\* slots it has
SlotInfo(resp) ==
    IF resp.k = "fail" THEN "fail" ELSE IF resp.n = 1 THEN "one_slot" ELSE "ok"

(* ------------------------------- Init --------------------------------- *)
\* lines 22-37: the type of each key's initial value
InitKinds ==
    [step |-> "int", topic |-> "str", questions |-> "list", answers |-> "list",
     goal |-> "str", queries |-> "list", collected |-> "list", report |-> "str"]

Init ==
    /\ secret \in BOOLEAN
    /\ inited = FALSE
    /\ step = 0 /\ topic = "" /\ questions = <<>> /\ answers = <<>>
    /\ goal = "" /\ queries = <<>> /\ collected = <<>> /\ report = ""
    /\ shown = "none"
    /\ pc = "idle" /\ lqueries = JList(<<>>) /\ lgoal = "" /\ idx = 1
    /\ last = NoCall /\ firstGoal = Unset /\ replanned = FALSE
    /\ answersRecorded = FALSE
    /\ approved = FALSE /\ activeSet = JList(<<>>) /\ passStart = 0
    /\ nPass = 0 /\ nEval = 0 /\ nExpand = 0
    /\ reportAssigned = FALSE /\ approvedEv = <<>> /\ answeredFor = <<>>
    /\ kinds = InitKinds

\* A script run can start: the credential was found and no run is under way.
CanRun_IgnoresSecret == pc = "idle"

CanRun == secret /\ pc = "idle"

RunHistoryUnchanged == UNCHANGED <<passStart, nPass, nEval, nExpand>>

(* --------------------- lines 12-16: no credential --------------------- *)
StartupStop ==
    /\ ~secret
    /\ shown' = "error"                    \* st.error, then st.stop()
    /\ UNCHANGED <<secret, inited, session, locals, history, aux>>

(* -------------------------- step 0, 134-142 --------------------------- *)
Step0 ==
    /\ CanRun /\ step = 0
    /\ \E submitted \in BOOLEAN, t \in Topics :
        /\ submitted => shown = "topic_form"
        /\ IF submitted /\ t # ""
           THEN /\ topic' = t
                /\ step' = 1
                /\ shown' = "none"
           ELSE /\ UNCHANGED <<topic, step>>
                /\ shown' = "topic_form"
    /\ inited' = TRUE
    /\ last' = NoCall
    /\ UNCHANGED <<secret, questions, answers, goal, queries, collected, report,
                   kinds, locals, firstGoal, replanned, answersRecorded, approved,
                   activeSet, aux>>
    /\ RunHistoryUnchanged

(* -------------------------- step 1, 144-156 --------------------------- *)
\* Responses: the replies the gateway can give to the call
Step1On(Responses) ==
    /\ CanRun /\ step = 1
    /\ \E resp \in Responses, submitted \in BOOLEAN :
        LET asked == questions = <<>>
            r     == ask_clarifying_questions(resp)
        IN  /\ submitted => shown = "clarify_form"
            /\ IF asked /\ ~r.ok
               THEN /\ shown' = "none"
                    /\ last' = Call("ask_clarifying_questions", "", "fail")
                    /\ UNCHANGED <<questions, answers, step, answersRecorded,
                                   answeredFor>>
               ELSE LET qs == IF asked THEN r.val ELSE questions
                    IN  \E ans \in [1..Len(qs) -> AnswerInputs] :
                          \* text inputs created by this run hold their default
                          /\ asked => \A k \in 1..Len(qs) : ans[k] = ""
                          /\ questions' = qs
                          /\ last' = IF asked
                                     THEN Call("ask_clarifying_questions", "", "ok")
                                     ELSE NoCall
                          /\ IF submitted /\ \A k \in 1..Len(qs) : Strip(ans[k]) # ""
                             THEN /\ answers' = ans
                                  /\ step' = 2
                                  /\ answersRecorded' = TRUE
                                  \* the form submitted is the one the run
                                  \* before this one rendered
                                  /\ answeredFor' = questions
                                  /\ shown' = "none"
                             ELSE /\ UNCHANGED <<answers, step, answersRecorded,
                                                 answeredFor>>
                                  /\ shown' = "clarify_form"
    /\ inited' = TRUE
    /\ UNCHANGED <<secret, topic, goal, queries, collected, report,
                   kinds, locals, firstGoal, replanned, approved, activeSet,
                   reportAssigned, approvedEv>>
    /\ RunHistoryUnchanged

Step1 == Step1On(AskResponses)

(* -------------------------- step 2, 158-174 --------------------------- *)
Step2On(Responses) ==
    /\ CanRun /\ step = 2
    /\ \E resp \in Responses, clicked \in BOOLEAN :
        LET need == goal = "" \/ queries = <<>>
            r    == get_goal_and_queries(resp)
        IN  /\ clicked => shown = "start_button"
            /\ IF need /\ ~r.ok
               THEN /\ shown' = "none"
                    /\ last' = Call("get_goal_and_queries", "", PlanInfo(resp))
                    /\ UNCHANGED <<goal, queries, kinds, step, firstGoal,
                                   replanned, activeSet>>
               ELSE /\ goal' = IF need THEN r.val.goal ELSE goal
                    /\ queries' = IF need THEN r.val.queries ELSE queries
                    /\ kinds' = IF need
                                THEN [kinds EXCEPT !.goal = r.val.goalKind,
                                                   !.queries = r.val.queriesKind]
                                ELSE kinds
                    /\ firstGoal' = IF need /\ firstGoal = Unset
                                    THEN r.val.goal ELSE firstGoal
                    /\ replanned' = (replanned \/ (need /\ firstGoal # Unset))
                    /\ activeSet' = IF need THEN JList(r.val.queries) ELSE activeSet
                    /\ last' = IF need
                               THEN Call("get_goal_and_queries", "", PlanInfo(resp))
                               ELSE NoCall
                    /\ IF clicked
                       THEN step' = 3 /\ shown' = "none"
                       ELSE step' = step /\ shown' = "start_button"
    /\ inited' = TRUE
    /\ UNCHANGED <<secret, topic, questions, answers, collected, report,
                   locals, answersRecorded, approved, aux>>
    /\ RunHistoryUnchanged

Step2 == Step2On(PlanResponses)

(* ---------------------- step 3, lines 176-182 ------------------------- *)
Step3Start ==
    /\ CanRun /\ step = 3
    /\ pc' = "search"
    /\ lqueries' = JList(queries)
    /\ lgoal' = goal
    /\ idx' = 1
    /\ passStart' = Len(collected)
    /\ nPass' = 1 /\ nEval' = 0 /\ nExpand' = 0
    /\ last' = NoCall
    /\ inited' = TRUE
    /\ shown' = "none"
    /\ UNCHANGED <<secret, session, firstGoal, replanned, answersRecorded,
                   approved, activeSet, aux>>

\* The script run ends (exception, st.stop() or st.rerun()): its locals die.
RunEnds ==
    /\ pc' = "idle"
    /\ lqueries' = JList(<<>>)
    /\ lgoal' = ""
    /\ idx' = 1

\* The run ends by an exception or st.stop(): the counts of its calls are
\* dropped with it (they describe the run under way, or the one that left
\* the loop by `break`).
RunFails ==
    /\ RunEnds
    /\ passStart' = 0 /\ nPass' = 0 /\ nEval' = 0 /\ nExpand' = 0

(* ---------------------- step 3, lines 183-184 ------------------------- *)
\* cap: the length of the evidence up to which the model follows the loop
Step3SearchOn(Responses, cap) ==
    /\ pc = "search"
    /\ idx <= Len(IterItems(lqueries))
    /\ Len(collected) < cap
    /\ \E resp \in Responses :
        LET r == run_search(IterItems(lqueries)[idx], resp)
        IN  IF r.ok
            THEN /\ collected' = ListAppend(collected, r.val)
                 /\ idx' = idx + 1
                 /\ last' = Call("run_search", "", SlotInfo(resp))
                 /\ UNCHANGED <<pc, lqueries, lgoal>>
                 /\ RunHistoryUnchanged
            ELSE /\ RunFails
                 /\ last' = Call("run_search", "", SlotInfo(resp))
                 /\ UNCHANGED collected
    /\ UNCHANGED <<secret, inited, step, topic, questions, answers, goal, queries,
                   report, kinds, shown, firstGoal, replanned, answersRecorded, approved,
                   activeSet, aux>>

Step3Search == Step3SearchOn(SearchResponses, MaxEvidence)

(* ------------------- step 3, lines 185-186, 189-191 ------------------- *)
\* line 185: evaluate is given the list every pass has appended to; `start`
\* is where the pass just finished began
EvalArg_BatchOnly(coll, start) == SubSeq(coll, start + 1, Len(coll))

EvalArg(coll, start) == coll

Step3EvaluateOn(Responses) ==
    /\ pc = "search"
    /\ idx > Len(IterItems(lqueries))
    /\ \E resp \in Responses :
        LET r == evaluate(resp)
        IN  IF ~r.ok
            THEN /\ RunFails
                 /\ last' = EvalCall(lgoal, "fail", EvalArg(collected, passStart), <<>>)
                 /\ UNCHANGED <<step, approved, approvedEv>>
            ELSE /\ last' = EvalCall(lgoal, IF r.val THEN "true" ELSE "false",
                                     EvalArg(collected, passStart), resp.text)
                 /\ approved' = (approved \/ r.val)
                 /\ approvedEv' = IF r.val THEN EvalArg(collected, passStart)
                                  ELSE approvedEv
                 /\ nEval' = nEval + 1
                 /\ IF AfterEvaluate(r.val) = "break"
                    THEN /\ RunEnds                 \* break; step = 4; rerun
                         /\ step' = 4
                         /\ passStart' = 0
                         /\ UNCHANGED <<nPass, nExpand>>
                    ELSE /\ pc' = "expand"
                         /\ UNCHANGED <<step, lqueries, lgoal, idx,
                                        passStart, nPass, nExpand>>
    /\ UNCHANGED <<secret, inited, topic, questions, answers, goal, queries,
                   collected, report, kinds, shown, firstGoal, replanned,
                   answersRecorded, activeSet, reportAssigned, answeredFor>>

Step3Evaluate == Step3EvaluateOn(EvalResponses)

(* ------------------- step 3, line 188 and back to 183 ----------------- *)
\* line 182: itertools.count() has a next element after any number n of
\* iterations
LoopContinues_Capped(n) == n < 2

LoopContinues(n) == TRUE

\* line 188 binds the expansion to the local name `queries` (180); the list
\* under st.session_state.queries is not touched
QueriesKeyAfterExpand_Overwritten(key, new) == new

QueriesKeyAfterExpand(key, new) == key

Step3ExpandOn(Responses) ==
    /\ pc = "expand"
    /\ nExpand < MaxIter
    /\ \E resp \in Responses :
        LET r == get_more_queries(resp)
        IN  IF ~r.ok
            THEN /\ RunFails
                 /\ last' = Call("get_more_queries", lgoal, resp.k)
                 /\ UNCHANGED <<activeSet, queries, step>>
            ELSE /\ activeSet' = r.val
                 /\ queries' = QueriesKeyAfterExpand(queries, r.val.v)
                 /\ last' = Call("get_more_queries", lgoal, resp.k)
                 /\ IF ~LoopContinues(nPass)
                    THEN /\ RunEnds                 \* the for loop is exhausted
                         /\ step' = 4
                         /\ passStart' = 0
                         /\ UNCHANGED <<nPass, nEval, nExpand>>
                    ELSE IF Iterable(r.val)
                    THEN /\ step' = step
                         /\ pc' = "search"
                         /\ lqueries' = r.val
                         /\ idx' = 1
                         /\ passStart' = Len(collected)
                         /\ nPass' = nPass + 1
                         /\ nExpand' = nExpand + 1
                         /\ UNCHANGED <<lgoal, nEval>>
                    ELSE /\ RunFails              \* for q in 5: TypeError
                         /\ step' = step
    /\ UNCHANGED <<secret, inited, topic, questions, answers, goal,
                   collected, report, kinds, shown, firstGoal, replanned,
                   answersRecorded, approved, aux>>

Step3Expand == Step3ExpandOn(ExpandResponses)

(* -------------------------- step 4, 193-207 --------------------------- *)
\* line 205: a key holding a list gets [], any other key gets ''
ResetKind(kind) == IF kind = "list" THEN "list" ELSE "str"

\* lines 204-206: every key becomes [] or '', then step becomes 0
Restart ==
    /\ step' = 0 /\ topic' = "" /\ questions' = <<>> /\ answers' = <<>>
    /\ goal' = "" /\ queries' = <<>> /\ collected' = <<>> /\ report' = ""
    /\ kinds' = [key \in DOMAIN kinds |->
                    IF key = "step" THEN "int" ELSE ResetKind(kinds[key])]

Step4On(Responses) ==
    /\ CanRun /\ step = 4
    /\ \E resp \in Responses, clicked \in BOOLEAN :
        LET need == report = ""
            r    == write_report(resp)
        IN  /\ clicked => shown = "restart_button"
            /\ IF need /\ ~r.ok
               THEN /\ shown' = "none"
                    /\ last' = ReportCall(goal, "fail", collected)
                    /\ UNCHANGED <<session, firstGoal, replanned, answersRecorded,
                                   approved, activeSet, passStart, nPass, nEval,
                                   nExpand, aux>>
               ELSE /\ last' = IF need THEN ReportCall(goal, "ok", collected)
                               ELSE NoCall
                    /\ IF clicked
                       THEN /\ Restart
                            /\ shown' = "none"
                            /\ firstGoal' = Unset
                            /\ replanned' = FALSE
                            /\ answersRecorded' = FALSE
                            /\ approved' = FALSE
                            /\ activeSet' = JList(<<>>)
                            /\ passStart' = 0
                            /\ nPass' = 0 /\ nEval' = 0 /\ nExpand' = 0
                            /\ reportAssigned' = FALSE
                            /\ approvedEv' = <<>>
                            /\ answeredFor' = <<>>
                       ELSE /\ report' = IF need THEN r.val ELSE report
                            /\ reportAssigned' = (reportAssigned \/ need)
                            /\ UNCHANGED <<approvedEv, answeredFor>>
                            /\ shown' = "restart_button"
                            /\ UNCHANGED <<step, topic, questions, answers, goal,
                                           queries, collected, kinds, firstGoal,
                                           replanned, answersRecorded, approved, activeSet,
                                           passStart, nPass, nEval, nExpand>>
    /\ inited' = TRUE
    /\ UNCHANGED <<secret, locals>>

Step4 == Step4On(ReportResponses)

Next ==
    \/ StartupStop
    \/ Step0
    \/ Step1
    \/ Step2
    \/ Step3Start
    \/ Step3Search
    \/ Step3Evaluate
    \/ Step3Expand
    \/ Step4

Spec == Init /\ [][Next]_vars

(* ------------------- the flow when no stage fails -------------------- *)
\* Every gateway call returns and every reply is usable: the planner's has
\* both fields, a search reply has its second slot, an expansion is JSON that
\* a for loop can iterate (a batch of five among them), and the evaluator
\* says yes at the latest after MaxIter expansions.
FiveMore == Append(MoreQueries, "q5")

AskReliable == {r \in AskResponses : r.k # "fail"}

PlanReliable == {r \in PlanResponses : PlanInfo(r) = "ok"}

SearchReliable == {r \in SearchResponses : SlotInfo(r) = "ok"}

EvalReliable ==
    {r \in EvalResponses : r.k # "fail" /\ (nExpand < MaxIter \/ evaluate(r).val)}

ExpandReliable ==
    {r \in ExpandResponses : r.k = "json" /\ Iterable(r.val)}
    \cup {[k |-> "json", val |-> JList(FiveMore)]}

ReportReliable == {r \in ReportResponses : r.k # "fail"}

\* the longest evidence a session can then collect
ReliableCap == Len(FiveQueries) + MaxIter * Len(FiveMore)

Step1Reliable == Step1On(AskReliable)

Step2Reliable == Step2On(PlanReliable)

Step3SearchReliable == Step3SearchOn(SearchReliable, ReliableCap)

Step3EvaluateReliable == Step3EvaluateOn(EvalReliable)

Step3ExpandReliable == Step3ExpandOn(ExpandReliable)

Step4Reliable == Step4On(ReportReliable)

NextReliable ==
    \/ StartupStop
    \/ Step0
    \/ Step1Reliable
    \/ Step2Reliable
    \/ Step3Start
    \/ Step3SearchReliable
    \/ Step3EvaluateReliable
    \/ Step3ExpandReliable
    \/ Step4Reliable

\* st.rerun() at line 174 starts the step-3 run without waiting for the user,
\* and a run under way executes its next statement: the loop's steps are
\* weakly fair.  Runs of the other steps wait for the user and are not.
SpecReliable ==
    /\ Init
    /\ [][NextReliable]_vars
    /\ WF_vars(Step3Start)
    /\ WF_vars(Step3SearchReliable)
    /\ WF_vars(Step3EvaluateReliable)
    /\ WF_vars(Step3ExpandReliable)

(* ============================== claims ================================ *)
IsPrefix(a, b) == Len(a) <= Len(b) /\ SubSeq(b, 1, Len(a)) = a
ItemQueries(s) == [k \in 1..Len(s) |-> s[k].query]
IsItem(it) == DOMAIN it = {"query", "resp_id", "research_output"}
                 /\ it.resp_id \in RespIds /\ it.research_output \in Outputs

\* C1: a run of the loop in which no call fails makes, up to the evaluation
\* that returns true, as many search passes as evaluations and one expansion
\* fewer; during a pass the pass count is one ahead of the evaluations; the
\* evaluation that returns true ends the run with step 4, and at step 4 no
\* search or expansion call is made any more (the counts stay as they were).
C1_LoopCounts ==
    /\ pc = "search" => (nPass = nEval + 1 /\ nExpand = nEval)
    /\ pc = "expand" => (nPass = nEval /\ nExpand = nEval - 1)
    /\ (last.fn = "evaluate" /\ last.info = "true") => (step = 4 /\ pc = "idle")
    /\ step = 4 => /\ pc = "idle"
                   /\ nEval >= 1 /\ nPass = nEval /\ nExpand = nEval - 1
                   /\ last.fn \notin {"run_search", "get_more_queries"}

\* C1 witness: the loop ended on its second evaluation (N = 2).
C1_Witness ==
    step = 4 /\ last.fn = "evaluate" /\ nEval = 2 /\ nPass = 2 /\ nExpand = 1

\* C2: except for the restart at step 4, no step shortens
\* st.session_state.collected or changes an item already in it.
C2_AppendOnly ==
    [][ ~(step = 4 /\ step' = 0) => IsPrefix(collected, collected') ]_vars

\* C2 witness: step 3 is running again after an interrupted run and has
\* appended to the evidence that run left behind.
C2_Witness ==
    pc = "search" /\ nExpand = 0 /\ passStart > 0 /\ Len(collected) > passStart

\* C3: within a pass the evidence appended so far is, in order, the results
\* for the first queries of the set being searched; when the pass is over
\* (the evaluation has answered) there is exactly one item per query of the
\* set, in the set's order; the first pass of a run searches the plan's
\* queries, so a five-query plan gives five searches in plan order before
\* the first evaluation.
C3_PassOrder ==
    /\ pc = "search" =>
          /\ idx - 1 <= Len(lqueries.v)
          /\ Len(collected) = passStart + idx - 1
          /\ \A k \in 1..(idx - 1) : collected[passStart + k].query = lqueries.v[k]
    /\ pc = "expand" =>
          /\ Len(collected) = passStart + Len(lqueries.v)
          /\ \A k \in 1..Len(lqueries.v) : collected[passStart + k].query = lqueries.v[k]
    /\ (pc \in {"search", "expand"} /\ nPass = 1) => lqueries.v = queries
    /\ (pc = "expand" /\ nEval = 1 /\ passStart = 0 /\ Len(queries) = 5) =>
          ItemQueries(collected) = queries

\* C3 witness: the first evaluation of a five-query plan has just answered.
C3_Witness ==
    pc = "expand" /\ nEval = 1 /\ queries = FiveQueries /\ Len(collected) = 5

\* C4 (as claimed): at step 3 the goal and the queries are non-empty.
C4_PlanBeforeLoop ==
    step = 3 => (goal # "" /\ queries # <<>>)

\* C5: after an expansion whose reply text is empty or is not JSON the script
\* run is over and the session is still at step 3.
C5_MalformedExpansionHalts ==
    (last.fn = "get_more_queries" /\ last.info \in {"empty", "garbage"}) =>
        (pc = "idle" /\ step = 3 /\ ~approved)

\* C5 witness: an expansion with evidence collected got an empty reply.
C5_Witness ==
    last.fn = "get_more_queries" /\ last.info = "empty" /\ Len(collected) > 0

\* The planner was called once and its plan has a goal and queries.
SoundPlan == goal # "" /\ queries # <<>> /\ ~replanned

\* C6 (as claimed; stated for a session with a sound plan, so that the empty
\* pass is the expansion's doing): the pass that follows an expansion has at
\* least one query to search.
C6_ExpansionNonEmpty ==
    (pc = "search" /\ nExpand > 0 /\ SoundPlan) => Len(IterItems(lqueries)) > 0

\* C7: a collector call answered with one output slot appends nothing, leaves
\* the evidence as it was, ends the run and leaves the session at step 3; and
\* every item of the evidence has its three fields.
C7_NoResultKeepsEvidence ==
    [][ /\ (last'.fn = "run_search" /\ last'.info = "one_slot") =>
              (collected' = collected /\ step' = 3 /\ pc' = "idle")
        /\ \A k \in 1..Len(collected') : IsItem(collected'[k]) ]_vars

\* C7 witness: a one-slot response arrived with evidence already collected.
C7_Witness ==
    last.fn = "run_search" /\ last.info = "one_slot" /\ Len(collected) > 0

\* C8 (as claimed; stated for a first goal that is a non-empty string): once
\* the planner has stored a goal, the session's goal is that goal, and it is
\* the goal every evaluate, get_more_queries and write_report call gets.
C8_GoalImmutable ==
    firstGoal \notin {Unset, ""} =>
        /\ goal = firstGoal
        /\ last.fn \in {"evaluate", "get_more_queries", "write_report"} =>
              last.goal = firstGoal

\* C9: step moves only 0 -> 1 -> 2 -> 3 -> 4 -> 0; the planner is called only
\* once the answers are recorded, a search only once the plan is stored, and
\* write_report only once an evaluation of the session has returned true.
C9_PhaseOrder ==
    [][ /\ \/ step' = step
           \/ step < 4 /\ step' = step + 1
           \/ step = 4 /\ step' = 0
        /\ last'.fn = "get_goal_and_queries" => (answersRecorded /\ step = 2)
        /\ last'.fn = "run_search" => (firstGoal # Unset /\ step = 3)
        /\ last'.fn = "write_report" => (approved /\ step = 4) ]_vars

\* C9 witness: the report has been written.
C9_Witness ==
    step = 4 /\ last.fn = "write_report" /\ report # ""

\* C10 (as claimed; stated for a session with a sound plan and for query
\* sets that are non-empty lists): a pass searches the query set most
\* recently set by the plan or by an expansion.
C10_LatestQueries ==
    (pc = "search" /\ SoundPlan /\ activeSet.t = "list" /\ activeSet.v # <<>>) =>
        lqueries = activeSet

\* C11 (as claimed): once line 197 has assigned the report, no later run of
\* step 4 invokes write_report and gets a text back again.  Stated for
\* sessions whose goal is not empty.
C11_ReportOnce ==
    [][ (reportAssigned /\ step = 4 /\ goal # "") =>
            ~(last'.fn = "write_report" /\ last'.info = "ok") ]_vars

\* C12 (as claimed; stated for sessions that had a non-empty goal, non-empty
\* queries and a non-empty report): 'Start New Research' leaves the session as lines 22-37
\* create it: step 0, empty strings in topic, goal and report, empty lists in
\* questions, answers, queries and collected.
C12_RestartIsFresh ==
    [][ (step = 4 /\ step' = 0 /\ goal # "" /\ queries # <<>> /\ report # "") =>
            /\ topic' = "" /\ goal' = "" /\ report' = ""
            /\ questions' = <<>> /\ answers' = <<>>
            /\ queries' = <<>> /\ collected' = <<>>
            /\ kinds' = InitKinds ]_vars

\* C13: a planner reply that is not JSON, or is JSON without 'goal' or
\* without 'queries', makes planning fail: the run writes neither goal nor
\* queries, renders no 'Start Research' button and leaves the step at 2.
C13_MalformedPlanFails ==
    [][ (last'.fn = "get_goal_and_queries" /\ last'.info \in {"garbage", "missing"}) =>
            /\ goal' = goal /\ queries' = queries /\ kinds' = kinds
            /\ step = 2 /\ step' = 2
            /\ shown' = "none" ]_vars

\* a reply without one of the fields arrived while a goal was already stored
C13_Witness ==
    /\ last.fn = "get_goal_and_queries" /\ last.info = "missing"
    /\ step = 2 /\ goal = "g1" /\ queries = <<>>

\* C15: without the credential every script run stops at line 16: the
\* session-state keys are never created, no gateway call is made and the
\* step never leaves its initial value.
C15_NoCredentialNoRun ==
    ~secret =>
        /\ ~inited
        /\ last = NoCall
        /\ step = 0 /\ pc = "idle"
        /\ topic = "" /\ questions = <<>> /\ answers = <<>> /\ goal = ""
        /\ queries = <<>> /\ collected = <<>> /\ report = ""
        /\ nPass = 0 /\ nEval = 0 /\ nExpand = 0 /\ ~reportAssigned

\* a run has stopped at line 16 after showing the error
C15_Witness == ~secret /\ shown = "error"

\* C17: the step is past 0 only with a non-empty topic; it is past 1 only
\* with one answer per question, none of them blank, typed into the form of
\* exactly the questions the session holds; and the planner is called only in
\* such a state.
C17_PlannerInputs ==
    /\ step >= 1 => topic # ""
    /\ step >= 2 =>
          /\ answersRecorded
          /\ Len(answers) = Len(questions)
          /\ \A k \in 1..Len(answers) : answers[k] \notin {"", " "}
          /\ answeredFor = questions
    /\ last.fn = "get_goal_and_queries" => step >= 2

\* the planner has been called for two questions with their two answers
C17_Witness ==
    /\ last.fn = "get_goal_and_queries" /\ last.info = "ok"
    /\ topic = "solar"
    /\ Len(questions) = 2 /\ answers = <<"a", "a">>

\* Whether a text holds the letters y, e, s next to each other, each in
\* either case.
HasYes(text) ==
    \E k \in 1..(Len(text) - 2) :
        /\ text[k] \in {"y", "Y"}
        /\ text[k + 1] \in {"e", "E"}
        /\ text[k + 2] \in {"s", "S"}

\* C18: an evaluation that gets a reply returns true exactly when the reply
\* text holds 'yes' in some letter case, so the result is a function of the
\* text alone; the evaluation writes to no key of the session (the step
\* becomes 4 when the result ends the loop and stays 3 otherwise).
C18_YesAnywhere ==
    [][ (pc = "search" /\ idx > Len(IterItems(lqueries))
          /\ last'.fn = "evaluate" /\ last'.info # "fail") =>
            /\ (last'.info = "true") <=> HasYes(last'.text)
            /\ last'.info \in {"true", "false"}
            /\ collected' = collected /\ goal' = goal /\ queries' = queries
            /\ topic' = topic /\ questions' = questions /\ answers' = answers
            /\ report' = report /\ kinds' = kinds
            /\ step' = IF last'.info = "true" THEN 4 ELSE step ]_vars

\* the qualified reply 'No, yes would' has been evaluated to true
C18_Witness ==
    /\ last.fn = "evaluate" /\ last.info = "true"
    /\ last.text = <<"N", "o", ",", " ", "y", "e", "s", " ", "w", "o", "u", "l", "d">>
    /\ step = 4

\* C19: while the step is 3 no run writes topic, questions, answers, goal,
\* queries or report; the evidence only grows; the step becomes 4 only with
\* the evaluation that ends the loop; and a run that ends any other way
\* leaves the step at 3 and the evidence as it had grown.
C19_LoopFrame ==
    [][ step = 3 =>
            /\ topic' = topic /\ questions' = questions /\ answers' = answers
            /\ goal' = goal /\ queries' = queries /\ report' = report
            /\ kinds' = kinds
            /\ IsPrefix(collected, collected')
            /\ step' \in {3, 4}
            /\ step' = 4 =>
                  /\ last'.fn = "evaluate" /\ last'.info = "true"
                  /\ pc = "search" /\ pc' = "idle"
            /\ (pc # "idle" /\ pc' = "idle"
                  /\ ~(last'.fn = "evaluate" /\ last'.info = "true")) =>
                  /\ step' = 3 /\ collected' = collected ]_vars

\* a pass over an expanded batch is under way: the local batch differs from
\* the session's queries, and evidence has been appended
C19_Witness ==
    /\ step = 3 /\ pc = "search" /\ nExpand > 0
    /\ IterItems(lqueries) # queries
    /\ Len(collected) > Len(queries) /\ queries # <<>>

\* C14: the step goes from 3 to 4 only with an evaluation that returned
\* true; a run of the loop always has a next step to take, however many
\* iterations it has made; and when no stage fails and the evaluator says yes
\* in the end, a session at step 3 reaches step 4.
C14_NoIterationCap ==
    /\ [][ (step = 3 /\ step' = 4) =>
              (last'.fn = "evaluate" /\ last'.info = "true") ]_vars
    /\ [](pc = "search" =>
              ENABLED (Step3SearchReliable \/ Step3EvaluateReliable))
    /\ [](pc = "expand" => ENABLED Step3ExpandReliable)
    /\ ((step = 3) ~> (step = 4))

\* the loop has been left by a true evaluation after MaxIter expansions
C14_Witness ==
    /\ step = 4 /\ nExpand = MaxIter /\ nEval = MaxIter + 1
    /\ last.fn = "evaluate" /\ last.info = "true"

\* C16: every pass is followed by one evaluation, which is given the whole
\* evidence of the session and the session's goal; once an evaluation has
\* returned true the session holds exactly the evidence it was given, and
\* write_report is given the same.  With a plan of five queries that is five
\* items after an immediate yes and ten after one expansion of five queries.
C16_ApprovedEvidence ==
    /\ [](pc = "search" => nEval = nPass - 1)
    /\ [](pc = "expand" => nEval = nPass)
    /\ [](last.fn = "evaluate" => (last.ev = collected /\ last.goal = goal))
    /\ [](step = 4 => (approved /\ collected = approvedEv))
    /\ [][ (step = 4 /\ last'.fn = "write_report") =>
              (last'.ev = approvedEv /\ last'.goal = goal) ]_vars
    /\ []((step = 4 /\ queries = FiveQueries /\ nExpand = 0) =>
              Len(collected) = 5)
    /\ []((step = 4 /\ queries = FiveQueries /\ nExpand = 1
              /\ activeSet = JList(FiveMore)) => Len(collected) = 10)

\* the report has been written from ten items: five of the plan's queries,
\* a no, five of the expansion's, a yes
C16_Witness ==
    /\ step = 4 /\ last.fn = "write_report" /\ last.info = "ok"
    /\ nExpand = 1 /\ nEval = 2
    /\ Len(last.ev) = 10 /\ last.ev = approvedEv
    /\ ItemQueries(collected) = FiveQueries \o FiveMore

====
